---- MODULE Spec2Model ----
(***************************************************************************)
(* Model of the Recipe Pocket content pipeline: the dashboard's automatic  *)
(* run (App.tsx runPipeline), the manual rewrite (App.tsx handleRewrite),  *)
(* the agents of services/geminiService.ts, the image upload of            *)
(* services/storageService.ts and the article store reached through        *)
(* services/firestoreService.ts and server.js, and the POST /schedule       *)
(* handler of the server (setupScheduler).  Spec is the dashboard's run,    *)
(* rewrite and page load; LiveSpec the run and the rewrite with fairness;  *)
(* PostSpec the run, the manual post (App.tsx handlePostArticle) and the   *)
(* page load; SchedSpec the scheduler; SplitSpec the split of a writer     *)
(* output alone.                                                           *)
(*                                                                         *)
(* Strings are sequences of tokens; the token SPLIT is the literal marker  *)
(* "[SPLIT]".  A JavaScript boolean that can also be undefined is one of   *)
(* the strings "true", "false", "undefined".  An undefined review_history  *)
(* is the empty sequence (the code never stores an empty array).           *)
(***************************************************************************)
EXTENDS Naturals, Sequences, FiniteSets, TLC

\* ---------------------------------------------------------------- bounds
\* largest number of articles one automatic run is asked to generate
MaxArticleCount == 2
\* number of automatic runs the model performs
MaxRuns == 1
\* number of manual rewrites the model performs
MaxRewrites == 1
\* number of POST /schedule requests the model receives
MaxTriggers == 2
\* latest reading of the server clock
MaxServerTime == 2
\* longest writer output, in tokens, that is given to the split
MaxTextLen == 5

\* ------------------------------------------------------------- constants
SPLIT == "[SPLIT]"
\* the degraded title of marketerAgent ("senryaku sakutei error" in the source)
STRATEGY_ERROR_TITLE == "STRATEGY_ERROR"
\* the fallback text of writerAgent ("shippitsu error" in the source)
WRITER_ERROR_TEXT == <<"WRITER_ERROR">>
\* the default feedback of handleRewrite when the review has no comments
DEFAULT_FEEDBACK == "DEFAULT_FEEDBACK"

EmptyDesign == [thumbnail_prompt |-> "", section1_prompt |-> "",
                section2_prompt |-> "", section3_prompt |-> ""]

\* ------------------------------------------------ outcomes of collaborators
\* texts the writer model can return
WriterTexts == { <<"a", SPLIT, "b", SPLIT, "c">>, <<"x">> }

\* reviews the controller model can return as JSON
ControllerJson == { [status |-> "APPROVED", score |-> 90, comments |-> "ok"],
                    [status |-> "REVIEW_REQUIRED", score |-> 40, comments |-> "fix"],
                    [status |-> "approved", score |-> 85, comments |-> ""] }

\* per slot: did generateImage return an image
Slots == 1..4
SlotResults == { [s \in Slots |-> TRUE],
                 [s \in Slots |-> s # 1],
                 [s \in Slots |-> s = 1] }
\* per slot: did the upload to the storage bucket succeed
UploadResults == { [s \in Slots |-> TRUE], [s \in Slots |-> s # 2] }

\* ------------------------------------------------------- pure functions
\* String.prototype.toUpperCase on the status strings
ToUpperCase(s) == IF s = "approved" THEN "APPROVED"
                  ELSE IF s = "review_required" THEN "REVIEW_REQUIRED"
                  ELSE s

\* String.prototype.split('[SPLIT]') on a token sequence
RECURSIVE SplitFrom(_, _, _)
SplitFrom(text, k, seg) ==
  IF k > Len(text) THEN <<seg>>
  ELSE IF text[k] = SPLIT THEN <<seg>> \o SplitFrom(text, k + 1, <<>>)
  ELSE SplitFrom(text, k + 1, Append(seg, text[k]))

\* Split that leaves out the empty segments
Split_dropEmpty(text) == SelectSeq(SplitFrom(text, 1, <<>>), LAMBDA seg : seg # <<>>)

\* rawContent.split('[SPLIT]')
Split(text) == SplitFrom(text, 1, <<>>)

\* parts[k] || ""
PartOr(parts, k) == IF k <= Len(parts) THEN parts[k] ELSE <<>>

\* { title, body_p1, body_p2, body_p3 } built from a writer text
MakeContent(title, text) ==
  [title |-> title,
   body_p1 |-> PartOr(Split(text), 1),
   body_p2 |-> PartOr(Split(text), 2),
   body_p3 |-> PartOr(Split(text), 3)]

JsBool(b) == IF b THEN "true" ELSE "false"

\* x?.toUpperCase() === 'APPROVED'
IsApprovedStatus(st) == ToUpperCase(st) = "APPROVED"

\* ------------------------------------------------------------ the agents
\* what the backend call of an agent does: a usable text, a transport
\* error (callGeminiApi throws), a response without text, or a text that
\* cleanJson cannot parse
AgentOutcomes == {"ok", "transport_error", "empty", "malformed"}

\* analystAgent that degrades on failure the way marketerAgent does
analystAgent_softFail(outcome) ==
  IF outcome = "ok"
  THEN [threw |-> FALSE, value |-> [direction |-> "d", topic |-> "topic"]]
  ELSE [threw |-> FALSE, value |-> [direction |-> "", topic |-> ""]]

\* analystAgent: the analysis, or the thrown error
analystAgent(outcome) ==
  IF outcome = "ok"
  THEN [threw |-> FALSE, value |-> [direction |-> "d", topic |-> "topic"]]
  ELSE [threw |-> TRUE, value |-> [direction |-> "", topic |-> ""]]

\* marketerAgent whose placeholder has no title
marketerAgent_noSentinel(outcome) ==
  IF outcome = "ok"
  THEN [concept |-> "c", function_intro |-> "f", title |-> "T", structure |-> <<"s">>]
  ELSE [concept |-> "ERROR", function_intro |-> "", title |-> "", structure |-> <<>>]

\* marketerAgent: the strategy, or the degraded placeholder
marketerAgent(outcome) ==
  IF outcome = "ok"
  THEN [concept |-> "c", function_intro |-> "f", title |-> "T", structure |-> <<"s">>]
  ELSE [concept |-> "ERROR", function_intro |-> "", title |-> STRATEGY_ERROR_TITLE,
        structure |-> <<>>]

\* no rewriteContext argument
NoContext == [feedback |-> "undefined", currentContent |-> <<>>]

\* the inputs the prompt of writerAgent is built from: the strategy (and the
\* template and the app context, which are fixed); writerAgent has no third
\* parameter, so the rewriteContext of the caller is not among them
WriterRequest(strategy, rewriteContext) == [strategy |-> strategy, context |-> NoContext]

\* writerAgent: the text of the response, or the error text
WriterOutcomes ==
  {[kind |-> "ok", text |-> t] : t \in WriterTexts}
    \cup {[kind |-> k, text |-> <<>>] : k \in {"transport_error"}}
writerAgent(outcome) ==
  IF outcome.kind = "ok" THEN outcome.text
  ELSE IF outcome.kind = "empty" THEN WRITER_ERROR_TEXT
  ELSE WRITER_ERROR_TEXT \o <<"msg">>

\* the responses of the controller call
ControllerOutcomes ==
  {[kind |-> "ok", json |-> j] : j \in ControllerJson}
    \cup {[kind |-> k, json |-> [status |-> "", score |-> 0, comments |-> ""]] :
            k \in {"transport_error", "empty", "malformed"}}
\* controllerAgent whose fallback review approves
controllerAgent_approveOnError(outcome) ==
  IF outcome.kind = "ok" THEN outcome.json
  ELSE [status |-> "APPROVED", score |-> 0, comments |-> "Error"]

\* controllerAgent: the parsed review, or the fallback review of its catch block
controllerAgent(outcome) ==
  IF outcome.kind = "ok" THEN outcome.json
  ELSE [status |-> "REVIEW_REQUIRED", score |-> 0, comments |-> "Error"]

\* the image models of the dashboard
ImageModels == {"gemini-2.5-flash-image", "gemini-3-pro-image-preview", "seedream-4.5"}

\* generateImage for one slot: the reference, or the empty string for undefined
NoImage == <<>>
generateImage(model, slot, ok) ==
  IF model = "seedream-4.5"
  THEN IF ok THEN <<"http", slot>> ELSE <<"placehold.co", "Generation+Error">>
  ELSE IF ok THEN <<"data:image/png;base64", slot>> ELSE NoImage

\* designerAgent: the four prompts and the four generated references
DesignerOutcomes == {"ok", "malformed"}
designerAgent(outcome, model, slotOk) ==
  LET prompts == IF outcome = "ok"
                 THEN [thumbnail_prompt |-> "p1", section1_prompt |-> "p2",
                       section2_prompt |-> "p3", section3_prompt |-> "p4"]
                 ELSE EmptyDesign
      has == [s \in Slots |-> outcome = "ok"]
  IN [prompts |-> prompts,
      base64 |-> [s \in Slots |-> IF has[s] THEN generateImage(model, s, slotOk[s])
                                   ELSE NoImage]]

\* the slots for which generateImage was called and returned an image
GeneratedSlots(outcome, slotOk) == {s \in Slots : outcome = "ok" /\ slotOk[s]}

\* uploadImageToStorage: the public URL, or the reference it was given
uploadImageToStorage(imageData, articleId, slot, uploadOk) ==
  IF imageData = NoImage \/ imageData[1] = "placehold.co" THEN imageData
  ELSE IF uploadOk THEN <<"public", articleId, slot>>
  ELSE imageData

\* uploadArticleImages: [thumbnail, section1, section2, section3]
uploadArticleImages(articleId, base64, uploadOk) ==
  [s \in Slots |-> IF base64[s] # NoImage
                   THEN uploadImageToStorage(base64[s], articleId, s, uploadOk[s])
                   ELSE NoImage]

\* ---------------------------------------------------------- the store
Ids == 1..(MaxRuns * MaxArticleCount)

\* the fields saveToFirestore writes for an article
SaveFields(a) ==
  [date |-> a.date,
   status |-> a.status,
   analysis_report |-> a.analysis_report,
   marketing_strategy |-> a.marketing_strategy,
   content |-> a.content,
   image_urls |-> a.image_urls,
   review_score |-> a.review.score,
   review_comment |-> a.review.comments,
   design_prompts |-> [thumbnail |-> a.design.thumbnail_prompt,
                       section1 |-> a.design.section1_prompt,
                       section2 |-> a.design.section2_prompt,
                       section3 |-> a.design.section3_prompt]]

\* createDocument of the store: 409 when the id exists
FirestoreCreate(st, id, doc) ==
  IF id \in DOMAIN st
  THEN [status |-> 409, store |-> st]
  ELSE [status |-> 200, store |-> [x \in DOMAIN st \cup {id} |->
                                     IF x = id THEN doc ELSE st[x]]]

\* PATCH of the whole document, without an update mask
FirestorePatch(st, id, doc) ==
  [x \in DOMAIN st \cup {id} |-> IF x = id THEN doc ELSE st[x]]

\* FirestoreSave that takes a conflict for a success and leaves the document
FirestoreSave_keepOnConflict(st, id, doc) == FirestoreCreate(st, id, doc).store

\* POST /api/firestore/save: create the document, or overwrite it on 409
FirestoreSave(st, id, doc) ==
  IF FirestoreCreate(st, id, doc).status = 409
  THEN FirestorePatch(st, id, doc)
  ELSE FirestoreCreate(st, id, doc).store

\* POST /api/firestore/status: PATCH with updateMask.fieldPaths=status
FirestoreStatus(st, id, newStatus) ==
  IF id \in DOMAIN st THEN [st EXCEPT ![id].status = newStatus] ELSE st

\* the Article fetchArticles builds from one stored document
FetchArticle(id, doc) ==
  [id |-> id,
   date |-> doc.date,
   status |-> doc.status,
   topic |-> "",
   content |-> doc.content,
   analysis_report |-> doc.analysis_report,
   marketing_strategy |-> doc.marketing_strategy,
   design |-> [thumbnail_prompt |-> doc.design_prompts.thumbnail,
               section1_prompt |-> doc.design_prompts.section1,
               section2_prompt |-> doc.design_prompts.section2,
               section3_prompt |-> doc.design_prompts.section3],
   image_urls |-> doc.image_urls,
   review |-> [status |-> "REVIEW_REQUIRED", score |-> doc.review_score,
               comments |-> doc.review_comment],
   title |-> doc.content.title,
   review_history |-> <<>>,
   rewrite_attempted |-> "undefined",
   isImageGenSkipped |-> "undefined"]

\* fetchArticles: every stored document, newest date first
RECURSIVE SortByDateDesc(_)
SortByDateDesc(as) ==
  IF as = {} THEN <<>>
  ELSE LET newest == CHOOSE a \in as : \A b \in as : b.date <= a.date
       IN <<newest>> \o SortByDateDesc(as \ {newest})

fetchArticles(st) == SortByDateDesc({FetchArticle(id, st[id]) : id \in DOMAIN st})

\* ------------------------------------------- the scheduler of the server
Triggers == 1..MaxTriggers

\* the objects the scheduler parses, with every field undefined ("" or 0);
\* null is the value cleanJson returns for a text that is not JSON
SchedAnalysisEmpty == [null |-> FALSE, topic |-> ""]
SchedStrategyEmpty == [null |-> FALSE, title |-> ""]
SchedDesignEmpty == [null |-> FALSE, thumbnail_prompt |-> "", section1_prompt |-> "",
                     section2_prompt |-> "", section3_prompt |-> ""]
SchedReviewEmpty == [null |-> FALSE, status |-> "", score |-> 0, comments |-> ""]

\* candidates?.[0]?.content?.parts?.[0]?.text || "{}" of a stage response
ResponseText(outcome, parsed, emptyObject) ==
  IF outcome = "ok" THEN [kind |-> "json", value |-> parsed]
  ELSE IF outcome = "empty" THEN [kind |-> "json", value |-> emptyObject]
  ELSE [kind |-> "garbage", value |-> [emptyObject EXCEPT !.null = TRUE]]

\* cleanJson of the scheduler: the parsed object, or null
cleanJson(text) ==
  IF text.kind = "json" THEN text.value ELSE [text.value EXCEPT !.null = TRUE]

\* the content object of the scheduler: strategy.title || "No Title" and the parts
SchedContent(strategy, contentText) ==
  [title |-> IF strategy.title = "" THEN "No Title" ELSE strategy.title,
   body_p1 |-> PartOr(Split(contentText), 1),
   body_p2 |-> PartOr(Split(contentText), 2),
   body_p3 |-> PartOr(Split(contentText), 3)]

\* `scheduled_${Date.now()}`
ScheduledId(now) == 100 + now

\* the fields the scheduler sends to /api/firestore/save
SchedSaveFields(r) ==
  [date |-> r.date,
   status |-> "Drafting",
   analysis_report |-> r.analysis,
   marketing_strategy |-> r.strategy,
   content |-> SchedContent(r.strategy, r.contentText),
   image_urls |-> <<>>,
   review_score |-> r.review.score,
   review_comment |-> r.review.comments,
   design_prompts |-> [thumbnail |-> r.design.thumbnail_prompt,
                       section1 |-> r.design.section1_prompt,
                       section2 |-> r.design.section2_prompt,
                       section3 |-> r.design.section3_prompt]]

\* a request that has not been received
NoRequest ==
  [pc |-> "none", response |-> "none", analysis |-> SchedAnalysisEmpty,
   strategy |-> SchedStrategyEmpty, contentText |-> <<>>,
   design |-> SchedDesignEmpty, review |-> SchedReviewEmpty,
   articleId |-> 0, date |-> 0, calls |-> {}]

\* ------------------------------------------------------------- the state
VARIABLES
  status,        \* App state `status` (AgentType)
  articles,      \* App state `articles`, newest first
  store,         \* the articles collection of the store, by document id
  clock,         \* the time new Date() reads
  nextId,        \* the id generateId() returns next
  runs,          \* number of automatic runs started
  rewrites,      \* number of manual rewrites started
  pc,            \* the await the running handler is suspended at
  cfg,           \* skipImages, autoPost and articleCount captured by runPipeline
  loc,           \* the local variables of the running handler
  calls,         \* collaborator calls made for the article of the handler
  attempted,     \* loop indices the current run has begun
  persisted,     \* ids whose save call of the current run succeeded
  cmsCalled,     \* ids the current run sent to /api/cms/post
  cmsSent,       \* <<id, content>> of the articles sent to /api/cms/post
  statusUpdates, \* <<id, status>> the current run sent to /api/firestore/status
  analystFailed, \* ids whose analyst call did not yield an analysis
  marketerFailed,\* ids whose marketer call did not yield a strategy
  genSkipped,    \* ids generated by a run with skipImages on
  opHistory,     \* by id, the review_history the last run or rewrite left
  sched,         \* the POST /schedule requests of the server, by request
  serverNow,     \* the time Date.now() reads on the server
  rawText,       \* a writer output given to the split
  parts          \* the content object built from rawText, once it is built

vars == <<status, articles, store, clock, nextId, runs, rewrites, pc, cfg, loc,
          calls, attempted, persisted, cmsCalled, cmsSent, statusUpdates,
          analystFailed, marketerFailed, genSkipped, opHistory, sched, serverNow,
          rawText, parts>>

NoReview == [status |-> "", score |-> 0, comments |-> ""]

NoArticle ==
  [id |-> 0, date |-> 0, status |-> "", topic |-> "",
   content |-> MakeContent("", <<>>),
   analysis_report |-> [direction |-> "", topic |-> ""],
   marketing_strategy |-> marketerAgent("empty"),
   design |-> EmptyDesign, image_urls |-> <<>>, review |-> NoReview, title |-> "",
   review_history |-> <<>>, rewrite_attempted |-> "undefined",
   isImageGenSkipped |-> "undefined"]

InitLoc ==
  [i |-> 0, newArticleId |-> 0,
   analysis |-> [direction |-> "", topic |-> ""],
   strategy |-> marketerAgent("empty"),
   rawContent |-> <<>>, finalContentStr |-> <<>>,
   review |-> NoReview, finalReview |-> NoReview,
   reviewHistory |-> <<>>, rewriteAttempted |-> FALSE,
   design |-> EmptyDesign, imageUrls |-> <<>>,
   newArticle |-> NoArticle, generatedArticles |-> <<>>,
   article |-> NoArticle]

NoCalls == [analyst |-> 0, marketer |-> 0, writer |-> 0, controller |-> 0,
            designer |-> 0, save |-> 0, imageModel |-> "none", generated |-> {},
            writerRequest |-> WriterRequest(marketerAgent("empty"), NoContext)]

InitCfg == [skipImages |-> FALSE, autoPost |-> FALSE, articleCount |-> 1]

\* the writer outputs the split is applied to
SplitTexts == UNION {[1..n -> {"a", "b", SPLIT}] : n \in 0..MaxTextLen}

\* no content object has been built
NoParts == [built |-> FALSE, content |-> MakeContent("", <<>>)]

InitApp ==
  /\ status = "IDLE"
  /\ articles = <<>>
  /\ store = <<>>
  /\ clock = 1
  /\ nextId = 1
  /\ runs = 0
  /\ rewrites = 0
  /\ pc = "idle"
  /\ cfg = InitCfg
  /\ loc = InitLoc
  /\ calls = NoCalls
  /\ attempted = {}
  /\ persisted = {}
  /\ cmsCalled = {}
  /\ cmsSent = {}
  /\ statusUpdates = {}
  /\ analystFailed = {}
  /\ marketerFailed = {}
  /\ genSkipped = {}
  /\ opHistory = [id \in Ids |-> <<>>]
  /\ sched = [t \in Triggers |-> NoRequest]
  /\ serverNow = 1

Init ==
  /\ InitApp
  /\ rawText = <<>>
  /\ parts = NoParts

\* the guard of runPipeline and handleRewrite
RunGuard == status \in {"IDLE", "COMPLETED", "ERROR"}

ghost == <<attempted, persisted, cmsCalled, cmsSent, statusUpdates, analystFailed,
          marketerFailed, genSkipped, opHistory>>
counters == <<runs, rewrites>>
server == <<sched, serverNow>>
splitter == <<rawText, parts>>

\* The outcomes the collaborators are drawn from.  A run of a single article
\* draws from the full sets; a batch draws the text agents and the image
\* stage from reduced sets, and every failure of analyst, save, CMS and
\* status update all the same.
FullInputs == cfg.articleCount = 1
MarketerInputs == IF FullInputs THEN AgentOutcomes ELSE {"ok"}
WriterInputs ==
  IF FullInputs THEN WriterOutcomes
  ELSE {[kind |-> "ok", text |-> <<"a", SPLIT, "b", SPLIT, "c">>]}
ControllerInputs ==
  IF FullInputs THEN ControllerOutcomes
  ELSE {o \in ControllerOutcomes :
          o.kind = "ok" /\ o.json.status \in {"APPROVED", "REVIEW_REQUIRED"}}
DesignerInputs == IF FullInputs THEN DesignerOutcomes ELSE {"ok"}
ModelInputs == IF FullInputs THEN ImageModels ELSE {"gemini-2.5-flash-image"}
SlotInputs == IF FullInputs THEN SlotResults ELSE {[s \in Slots |-> TRUE]}
UploadInputs == IF FullInputs THEN UploadResults ELSE {[s \in Slots |-> TRUE]}

\* ------------------------------------------------- runPipeline, step by step
\* the head of the for loop: a new id, then the analyst call is awaited
BeginArticle(idx, generated, begun, skipImages) ==
  /\ loc' = [InitLoc EXCEPT !.i = idx, !.newArticleId = nextId,
                            !.generatedArticles = generated]
  /\ nextId' = nextId + 1
  /\ status' = "ANALYST"
  /\ pc' = "analyst"
  /\ calls' = NoCalls
  /\ attempted' = begun \cup {idx}
  /\ genSkipped' = IF skipImages THEN genSkipped \cup {nextId} ELSE genSkipped

\* a catch block that logs the error and leaves the run status as it is
RunCatch_keepStatus ==
  /\ pc' = "idle"
  /\ loc' = InitLoc
  /\ calls' = NoCalls
  /\ UNCHANGED <<status, articles, nextId, attempted, genSkipped, opHistory>>

\* the catch block of runPipeline
RunCatch ==
  /\ status' = "ERROR"
  /\ pc' = "idle"
  /\ loc' = InitLoc
  /\ calls' = NoCalls
  /\ UNCHANGED <<articles, nextId, attempted, genSkipped, opHistory>>

\* runPipeline is called: the guard, then the first loop iteration
RunPipeline ==
  /\ UNCHANGED <<server, splitter>>
  /\ pc = "idle"
  /\ RunGuard
  /\ runs < MaxRuns
  /\ runs' = runs + 1
  /\ \E skip \in BOOLEAN, auto \in BOOLEAN, count \in 1..MaxArticleCount :
       /\ cfg' = [skipImages |-> skip, autoPost |-> auto, articleCount |-> count]
       /\ BeginArticle(1, <<>>, {}, skip)
  /\ persisted' = {}
  /\ cmsCalled' = {}
  /\ cmsSent' = {}
  /\ statusUpdates' = {}
  /\ UNCHANGED <<articles, store, clock, rewrites, analystFailed, marketerFailed,
                 opHistory>>

\* 1. Analyst: the analysis, or the error thrown into the catch block
Analyst ==
  /\ UNCHANGED <<server, splitter>>
  /\ pc = "analyst"
  /\ \E outcome \in AgentOutcomes :
       LET r == analystAgent(outcome) IN
       /\ analystFailed' = IF outcome = "ok" THEN analystFailed
                            ELSE analystFailed \cup {loc.newArticleId}
       /\ IF r.threw
          THEN RunCatch
          ELSE /\ loc' = [loc EXCEPT !.analysis = r.value]
               /\ calls' = [calls EXCEPT !.analyst = @ + 1]
               /\ status' = "MARKETER"
               /\ pc' = "marketer"
               /\ UNCHANGED <<articles, nextId, attempted, genSkipped, opHistory>>
  /\ UNCHANGED <<store, clock, counters, cfg, persisted, cmsCalled, cmsSent, statusUpdates,
                 marketerFailed>>

\* 2. Marketer
Marketer ==
  /\ UNCHANGED <<server, splitter>>
  /\ pc = "marketer"
  /\ \E outcome \in MarketerInputs :
       /\ loc' = [loc EXCEPT !.strategy = marketerAgent(outcome)]
       /\ marketerFailed' = IF outcome = "ok" THEN marketerFailed
                             ELSE marketerFailed \cup {loc.newArticleId}
  /\ calls' = [calls EXCEPT !.marketer = @ + 1]
  /\ status' = "WRITER"
  /\ pc' = "writer"
  /\ UNCHANGED <<articles, store, clock, nextId, counters, cfg, attempted, persisted,
                 cmsCalled, cmsSent, statusUpdates, analystFailed, genSkipped, opHistory>>

\* 3. Writer
Writer ==
  /\ UNCHANGED <<server, splitter>>
  /\ pc = "writer"
  /\ \E outcome \in WriterInputs :
       loc' = [loc EXCEPT !.rawContent = writerAgent(outcome),
                          !.finalContentStr = writerAgent(outcome)]
  /\ calls' = [calls EXCEPT !.writer = @ + 1,
                            !.writerRequest = WriterRequest(loc.strategy, NoContext)]
  /\ pc' = "controller"
  /\ UNCHANGED <<status, articles, store, clock, nextId, counters, cfg, ghost>>

\* NeedsRewrite with the comparison inverted
NeedsRewrite_inverted(review) == review.status = "APPROVED"

\* the rewrite decision of runPipeline: review.status !== 'APPROVED'
NeedsRewrite(review) == review.status # "APPROVED"

\* PushReview that overwrites the history instead of appending to it
PushReview_overwrite(history, review) == <<review>>

\* reviewHistory.push(review)
PushReview(history, review) == Append(history, review)

\* NewArticle that stores the first review as the article's review
NewArticle_firstReview(l, skipImages, now) ==
  [id |-> l.newArticleId,
   date |-> now,
   title |-> l.strategy.title,
   status |-> IF IsApprovedStatus(l.finalReview.status) THEN "Approved" ELSE "Reviewing",
   topic |-> l.analysis.topic,
   analysis_report |-> l.analysis,
   marketing_strategy |-> l.strategy,
   content |-> MakeContent(l.strategy.title, l.finalContentStr),
   image_urls |-> l.imageUrls,
   review |-> l.review,
   review_history |-> l.reviewHistory,
   rewrite_attempted |-> JsBool(l.rewriteAttempted),
   design |-> l.design,
   isImageGenSkipped |-> JsBool(skipImages)]

\* NewArticle that marks a rejected article Rejected
NewArticle_rejected(l, skipImages, now) ==
  [id |-> l.newArticleId,
   date |-> now,
   title |-> l.strategy.title,
   status |-> IF IsApprovedStatus(l.finalReview.status) THEN "Approved" ELSE "Rejected",
   topic |-> l.analysis.topic,
   analysis_report |-> l.analysis,
   marketing_strategy |-> l.strategy,
   content |-> MakeContent(l.strategy.title, l.finalContentStr),
   image_urls |-> l.imageUrls,
   review |-> l.finalReview,
   review_history |-> l.reviewHistory,
   rewrite_attempted |-> JsBool(l.rewriteAttempted),
   design |-> l.design,
   isImageGenSkipped |-> JsBool(skipImages)]

\* the Article object runPipeline builds before saving
NewArticle(l, skipImages, now) ==
  [id |-> l.newArticleId,
   date |-> now,
   title |-> l.strategy.title,
   status |-> IF IsApprovedStatus(l.finalReview.status) THEN "Approved" ELSE "Reviewing",
   topic |-> l.analysis.topic,
   analysis_report |-> l.analysis,
   marketing_strategy |-> l.strategy,
   content |-> MakeContent(l.strategy.title, l.finalContentStr),
   image_urls |-> l.imageUrls,
   review |-> l.finalReview,
   review_history |-> l.reviewHistory,
   rewrite_attempted |-> JsBool(l.rewriteAttempted),
   design |-> l.design,
   isImageGenSkipped |-> JsBool(skipImages)]

\* AfterReview that ignores the skipImages setting
AfterReview_ignoreSkip(l) ==
  IF IsApprovedStatus(l.finalReview.status)
  THEN /\ status' = "DESIGNER"
       /\ pc' = "designer"
       /\ loc' = l
       /\ UNCHANGED clock
  ELSE /\ pc' = "save"
       /\ loc' = [l EXCEPT !.newArticle = NewArticle(l, cfg.skipImages, clock)]
       /\ clock' = clock + 1
       /\ UNCHANGED status

\* after the last review: the image stage, or straight to the save call
AfterReview(l) ==
  IF IsApprovedStatus(l.finalReview.status) /\ ~cfg.skipImages
  THEN /\ status' = "DESIGNER"
       /\ pc' = "designer"
       /\ loc' = l
       /\ UNCHANGED clock
  ELSE /\ pc' = "save"
       /\ loc' = [l EXCEPT !.newArticle = NewArticle(l, cfg.skipImages, clock)]
       /\ clock' = clock + 1
       /\ UNCHANGED status

\* 4. Controller, first review, and the rewrite decision
Controller ==
  /\ UNCHANGED <<server, splitter>>
  /\ pc = "controller"
  /\ calls' = [calls EXCEPT !.controller = @ + 1]
  /\ \E outcome \in ControllerInputs :
       LET review == controllerAgent(outcome) IN
       IF NeedsRewrite(review)
       THEN /\ loc' = [loc EXCEPT !.review = review, !.finalReview = review,
                                  !.reviewHistory = PushReview(@, review),
                                  !.rewriteAttempted = TRUE]
            /\ pc' = "rewriteWriter"
            /\ UNCHANGED <<status, clock>>
       ELSE AfterReview([loc EXCEPT !.review = review, !.finalReview = review,
                                    !.reviewHistory = PushReview(@, review)])
  /\ UNCHANGED <<articles, store, nextId, counters, cfg, ghost>>

\* the writer call of the automatic rewrite
RewriteWriter ==
  /\ UNCHANGED <<server, splitter>>
  /\ pc = "rewriteWriter"
  /\ \E outcome \in WriterInputs :
       loc' = [loc EXCEPT !.finalContentStr = writerAgent(outcome)]
  /\ calls' = [calls EXCEPT !.writer = @ + 1,
                            !.writerRequest =
                               WriterRequest(loc.strategy,
                                             [feedback |-> loc.review.comments,
                                              currentContent |-> loc.finalContentStr])]
  /\ pc' = "reController"
  /\ UNCHANGED <<status, articles, store, clock, nextId, counters, cfg, ghost>>

\* the controller call of the automatic rewrite
ReController ==
  /\ UNCHANGED <<server, splitter>>
  /\ pc = "reController"
  /\ calls' = [calls EXCEPT !.controller = @ + 1]
  /\ \E outcome \in ControllerInputs :
       LET finalReview == controllerAgent(outcome) IN
       AfterReview([loc EXCEPT !.finalReview = finalReview,
                               !.reviewHistory = PushReview(@, finalReview)])
  /\ UNCHANGED <<articles, store, nextId, counters, cfg, ghost>>

\* 5. Designer: the prompts, the four images and their upload
Designer ==
  /\ UNCHANGED <<server, splitter>>
  /\ pc = "designer"
  /\ \E outcome \in DesignerInputs, model \in ModelInputs,
        slotOk \in SlotInputs, uploadOk \in UploadInputs :
       LET d == designerAgent(outcome, model, slotOk)
           l == [loc EXCEPT !.design = d.prompts,
                            !.imageUrls = uploadArticleImages(loc.newArticleId,
                                                              d.base64, uploadOk)]
       IN /\ loc' = [l EXCEPT !.newArticle = NewArticle(l, cfg.skipImages, clock)]
          /\ calls' = [calls EXCEPT !.designer = @ + 1, !.imageModel = model,
                                    !.generated = GeneratedSlots(outcome, slotOk)]
  /\ clock' = clock + 1
  /\ pc' = "save"
  /\ UNCHANGED <<status, articles, store, nextId, counters, cfg, ghost>>

\* the end of one loop iteration: the next article, or the end of the run
FinishArticle(newArticle) ==
  LET generated == Append(loc.generatedArticles, newArticle) IN
  /\ opHistory' = [opHistory EXCEPT ![newArticle.id] = newArticle.review_history]
  /\ IF loc.i < cfg.articleCount
     THEN /\ BeginArticle(loc.i + 1, generated, attempted, cfg.skipImages)
          /\ UNCHANGED articles
     ELSE /\ articles' = generated \o articles
          /\ status' = "COMPLETED"
          /\ pc' = "idle"
          /\ loc' = InitLoc
          /\ calls' = NoCalls
          /\ UNCHANGED <<nextId, attempted, genSkipped>>

\* saveToFirestore, then the auto post decision
Save ==
  /\ UNCHANGED <<server, splitter>>
  /\ pc = "save"
  /\ \E outcome \in {"ok", "http_error", "transport_error"} :
       IF outcome = "ok"
       THEN /\ store' = FirestoreSave(store, loc.newArticle.id, SaveFields(loc.newArticle))
            /\ persisted' = persisted \cup {loc.newArticle.id}
            /\ IF IsApprovedStatus(loc.finalReview.status) /\ cfg.autoPost
               THEN /\ pc' = "cmsPost"
                    /\ calls' = [calls EXCEPT !.save = @ + 1]
                    /\ UNCHANGED <<status, articles, nextId, loc, attempted,
                                   genSkipped, opHistory>>
               ELSE FinishArticle(loc.newArticle)
       ELSE /\ RunCatch
            /\ UNCHANGED <<store, persisted>>
  /\ UNCHANGED <<clock, counters, cfg, cmsCalled, cmsSent, statusUpdates, analystFailed, marketerFailed>>

\* { ...article, content }: the article as it is sent to /api/cms/post
ArticleToPost(article, content) == [article EXCEPT !.content = content]

\* CmsPost without the try/catch around the post
CmsPost_noCatch ==
  /\ UNCHANGED <<server, splitter>>
  /\ pc = "cmsPost"
  /\ cmsCalled' = cmsCalled \cup {loc.newArticle.id}
  /\ cmsSent' = cmsSent \cup {<<loc.newArticle.id,
                               ArticleToPost(loc.newArticle, loc.rawContent).content>>}
  /\ \E outcome \in {"ok", "http_error", "transport_error"} :
       IF outcome = "ok"
       THEN /\ pc' = "statusUpdate"
            /\ UNCHANGED <<status, articles, nextId, loc, calls, attempted, genSkipped,
                           opHistory>>
       ELSE RunCatch
  /\ UNCHANGED <<store, clock, counters, cfg, persisted, statusUpdates, analystFailed, marketerFailed>>

\* POST /api/cms/post of the auto post
CmsPost ==
  /\ UNCHANGED <<server, splitter>>
  /\ pc = "cmsPost"
  /\ cmsCalled' = cmsCalled \cup {loc.newArticle.id}
  /\ cmsSent' = cmsSent \cup {<<loc.newArticle.id,
                               ArticleToPost(loc.newArticle, loc.rawContent).content>>}
  /\ \E outcome \in {"ok", "http_error", "transport_error"} :
       IF outcome = "ok"
       THEN /\ pc' = "statusUpdate"
            /\ UNCHANGED <<status, articles, nextId, loc, calls, attempted, genSkipped,
                           opHistory>>
       ELSE FinishArticle(loc.newArticle)
  /\ UNCHANGED <<store, clock, counters, cfg, persisted, statusUpdates, analystFailed, marketerFailed>>

\* updateFirestoreStatus(newArticleId, 'Posted'), then newArticle.status = 'Posted'
StatusUpdate ==
  /\ UNCHANGED <<server, splitter>>
  /\ pc = "statusUpdate"
  /\ statusUpdates' = statusUpdates \cup {<<loc.newArticle.id, "Posted">>}
  /\ \E outcome \in {"ok", "http_error", "transport_error"} :
       /\ store' = IF outcome = "ok"
                   THEN FirestoreStatus(store, loc.newArticle.id, "Posted")
                   ELSE store
       /\ IF outcome = "transport_error"
          THEN FinishArticle(loc.newArticle)
          ELSE FinishArticle([loc.newArticle EXCEPT !.status = "Posted"])
  /\ UNCHANGED <<clock, counters, cfg, persisted, cmsCalled, cmsSent, analystFailed, marketerFailed>>

\* ------------------------------------------------ handleRewrite, step by step
\* NewHistory without the backfill of the previous review
NewHistory_noBackfill(article, review) == Append(article.review_history, review)

\* the history handleRewrite stores: the previous review is pushed first when
\* the article has no history, then the new review
NewHistory(article, review) ==
  LET newHistory == article.review_history
  IN IF Len(newHistory) = 0
     THEN <<article.review, review>>
     ELSE Append(newHistory, review)

\* the feedback handleRewrite hands to the writer
RewriteFeedback(article) ==
  IF article.review.comments # "" THEN article.review.comments ELSE DEFAULT_FEEDBACK

\* `${body_p1}\n${body_p2}\n${body_p3}` of handleRewrite
CurrentContentFull(article) ==
  article.content.body_p1 \o <<"\n">> \o article.content.body_p2 \o <<"\n">>
    \o article.content.body_p3

\* UpdatedArticle built without the spread of the old article: the topic and
\* the skip flag are not carried over
UpdatedArticle_noSpread(article, rawContent, review, design, imageUrls, now) ==
  [article EXCEPT
     !.status = IF IsApprovedStatus(review.status) THEN "Approved" ELSE "Reviewing",
     !.content = MakeContent(article.content.title, rawContent),
     !.review = review,
     !.review_history = NewHistory(article, review),
     !.rewrite_attempted = "true",
     !.design = design,
     !.image_urls = imageUrls,
     !.date = now,
     !.topic = "",
     !.isImageGenSkipped = "undefined"]

\* the updatedArticle object of handleRewrite
UpdatedArticle(article, rawContent, review, design, imageUrls, now) ==
  [article EXCEPT
     !.status = IF IsApprovedStatus(review.status) THEN "Approved" ELSE "Reviewing",
     !.content = MakeContent(article.content.title, rawContent),
     !.review = review,
     !.review_history = NewHistory(article, review),
     !.rewrite_attempted = "true",
     !.design = design,
     !.image_urls = imageUrls,
     !.date = now]

\* handleRewrite is called for an article of the list: the guard, then the
\* writer call is awaited
HandleRewrite ==
  /\ UNCHANGED <<server, splitter>>
  /\ pc = "idle"
  /\ RunGuard
  /\ rewrites < MaxRewrites
  /\ rewrites' = rewrites + 1
  /\ \E k \in 1..Len(articles) : loc' = [InitLoc EXCEPT !.article = articles[k]]
  /\ status' = "WRITER"
  /\ pc' = "rw_writer"
  /\ calls' = NoCalls
  /\ attempted' = {}
  /\ persisted' = {}
  /\ cmsCalled' = {}
  /\ cmsSent' = {}
  /\ statusUpdates' = {}
  /\ UNCHANGED <<articles, store, clock, nextId, runs, cfg, analystFailed,
                 marketerFailed, genSkipped, opHistory>>

\* 1. Rewrite
RwWriter ==
  /\ UNCHANGED <<server, splitter>>
  /\ pc = "rw_writer"
  /\ \E outcome \in WriterInputs :
       loc' = [loc EXCEPT !.rawContent = writerAgent(outcome)]
  /\ calls' = [calls EXCEPT !.writer = @ + 1,
                            !.writerRequest =
                               WriterRequest(loc.article.marketing_strategy,
                                             [feedback |-> RewriteFeedback(loc.article),
                                              currentContent |->
                                                CurrentContentFull(loc.article)])]
  /\ status' = "CONTROLLER"
  /\ pc' = "rw_controller"
  /\ UNCHANGED <<articles, store, clock, nextId, counters, cfg, ghost>>

\* RwController that sends a rejected rewrite back to the writer once more
RwController_nested ==
  /\ UNCHANGED <<server, splitter>>
  /\ pc = "rw_controller"
  /\ calls' = [calls EXCEPT !.controller = @ + 1]
  /\ \E outcome \in ControllerInputs :
       LET review == controllerAgent(outcome) IN
       IF IsApprovedStatus(review.status) /\ loc.article.isImageGenSkipped # "true"
       THEN /\ loc' = [loc EXCEPT !.review = review]
            /\ status' = "DESIGNER"
            /\ pc' = "rw_designer"
            /\ UNCHANGED clock
       ELSE IF ~IsApprovedStatus(review.status) /\ calls.writer < 2
       THEN /\ loc' = [loc EXCEPT !.review = review]
            /\ pc' = "rw_writer"
            /\ UNCHANGED <<status, clock>>
       ELSE /\ loc' = [loc EXCEPT !.review = review,
                                  !.newArticle = UpdatedArticle(loc.article, loc.rawContent,
                                                   review, loc.article.design,
                                                   loc.article.image_urls, clock)]
            /\ clock' = clock + 1
            /\ pc' = "rw_save"
            /\ UNCHANGED status
  /\ UNCHANGED <<articles, store, nextId, counters, cfg, ghost>>

\* 2. Re-Review, and the image decision
RwController ==
  /\ UNCHANGED <<server, splitter>>
  /\ pc = "rw_controller"
  /\ calls' = [calls EXCEPT !.controller = @ + 1]
  /\ \E outcome \in ControllerInputs :
       LET review == controllerAgent(outcome) IN
       IF IsApprovedStatus(review.status) /\ loc.article.isImageGenSkipped # "true"
       THEN /\ loc' = [loc EXCEPT !.review = review]
            /\ status' = "DESIGNER"
            /\ pc' = "rw_designer"
            /\ UNCHANGED clock
       ELSE /\ loc' = [loc EXCEPT !.review = review,
                                  !.newArticle = UpdatedArticle(loc.article, loc.rawContent,
                                                   review, loc.article.design,
                                                   loc.article.image_urls, clock)]
            /\ clock' = clock + 1
            /\ pc' = "rw_save"
            /\ UNCHANGED status
  /\ UNCHANGED <<articles, store, nextId, counters, cfg, ghost>>

\* 3. Image generation of the manual rewrite
RwDesigner ==
  /\ UNCHANGED <<server, splitter>>
  /\ pc = "rw_designer"
  /\ \E outcome \in DesignerInputs, model \in ModelInputs,
        slotOk \in SlotInputs, uploadOk \in UploadInputs :
       LET d == designerAgent(outcome, model, slotOk) IN
       /\ loc' = [loc EXCEPT !.newArticle =
                    UpdatedArticle(loc.article, loc.rawContent, loc.review, d.prompts,
                                   uploadArticleImages(loc.article.id, d.base64, uploadOk),
                                   clock)]
       /\ calls' = [calls EXCEPT !.designer = @ + 1, !.imageModel = model,
                                 !.generated = GeneratedSlots(outcome, slotOk)]
  /\ clock' = clock + 1
  /\ pc' = "rw_save"
  /\ UNCHANGED <<status, articles, store, nextId, counters, cfg, ghost>>

\* setArticles(prev => prev.map(a => a.id === article.id ? updatedArticle : a))
ReplaceById(list, updated) ==
  [k \in 1..Len(list) |-> IF list[k].id = updated.id THEN updated ELSE list[k]]

\* 4. Update: saveToFirestore, then the list is updated
RwSave ==
  /\ UNCHANGED <<server, splitter>>
  /\ pc = "rw_save"
  /\ \E outcome \in {"ok", "http_error", "transport_error"} :
       IF outcome = "ok"
       THEN /\ store' = FirestoreSave(store, loc.newArticle.id, SaveFields(loc.newArticle))
            /\ persisted' = persisted \cup {loc.newArticle.id}
            /\ articles' = ReplaceById(articles, loc.newArticle)
            /\ opHistory' = [opHistory EXCEPT ![loc.newArticle.id] =
                                               loc.newArticle.review_history]
            /\ status' = "COMPLETED"
       ELSE /\ status' = "ERROR"
            /\ UNCHANGED <<store, persisted, articles, opHistory>>
  /\ pc' = "idle"
  /\ loc' = InitLoc
  /\ calls' = [calls EXCEPT !.save = @ + 1, !.imageModel = "none", !.generated = {}]
  /\ UNCHANGED <<clock, nextId, counters, cfg, attempted, cmsCalled, cmsSent, statusUpdates,
                 analystFailed, marketerFailed, genSkipped>>

\* the page is loaded: the state is initial and the list is fetched from the store
LoadArticles ==
  /\ UNCHANGED <<server, splitter>>
  /\ pc = "idle"
  /\ \E outcome \in {"ok", "error"} :
       articles' = IF outcome = "ok" THEN fetchArticles(store) ELSE <<>>
  /\ status' = "IDLE"
  /\ cfg' = InitCfg
  /\ attempted' = {}
  /\ persisted' = {}
  /\ cmsCalled' = {}
  /\ cmsSent' = {}
  /\ statusUpdates' = {}
  /\ UNCHANGED <<store, clock, nextId, counters, pc, loc, calls, analystFailed,
                 marketerFailed, genSkipped, opHistory>>

Next ==
  \/ RunPipeline
  \/ Analyst
  \/ Marketer
  \/ Writer
  \/ Controller
  \/ RewriteWriter
  \/ ReController
  \/ Designer
  \/ Save
  \/ CmsPost
  \/ StatusUpdate
  \/ HandleRewrite
  \/ RwWriter
  \/ RwController
  \/ RwDesigner
  \/ RwSave
  \/ LoadArticles

Spec == Init /\ [][Next]_vars

\* ------------------------------------------------ the dashboard, with fairness
\* a handler suspended at an await is resumed: the awaited call returns or throws
Resume ==
  \/ Analyst
  \/ Marketer
  \/ Writer
  \/ Controller
  \/ RewriteWriter
  \/ ReController
  \/ Designer
  \/ Save
  \/ CmsPost
  \/ StatusUpdate
  \/ RwWriter
  \/ RwController
  \/ RwDesigner
  \/ RwSave

\* the automatic run and the manual rewrite
LiveNext ==
  \/ RunPipeline
  \/ HandleRewrite
  \/ Resume

LiveSpec == Init /\ [][LiveNext]_vars /\ WF_vars(Resume)

\* ---------------------------------------------- handlePostArticle, step by step
\* `${body_p1}\n\n${body_p2}\n\n${body_p3}` of handlePostArticle
FullContent(article) ==
  article.content.body_p1 \o <<"\n\n">> \o article.content.body_p2 \o <<"\n\n">>
    \o article.content.body_p3

\* setArticles(prev => prev.map(a => a.id === articleId ? { ...a, status: 'Posted' } : a))
MarkPosted(list, articleId) ==
  [k \in 1..Len(list) |-> IF list[k].id = articleId
                          THEN [list[k] EXCEPT !.status = "Posted"]
                          ELSE list[k]]

\* the catch block of handlePostArticle: the error is logged
PostCatch ==
  /\ pc' = "idle"
  /\ loc' = InitLoc
  /\ UNCHANGED articles

\* the post button is clicked for an article of the list that is not Posted
\* (handlePostClick); handlePostArticle finds it and awaits the post to the CMS
HandlePostArticle ==
  /\ UNCHANGED <<server, splitter>>
  /\ pc = "idle"
  /\ \E k \in 1..Len(articles) :
       /\ articles[k].status # "Posted"
       /\ loc' = [InitLoc EXCEPT !.article = articles[k]]
  /\ pc' = "post_cms"
  /\ UNCHANGED <<status, articles, store, clock, nextId, counters, cfg, calls, ghost>>

\* POST /api/cms/post of the manual post
PostCms ==
  /\ UNCHANGED <<server, splitter>>
  /\ pc = "post_cms"
  /\ cmsCalled' = cmsCalled \cup {loc.article.id}
  /\ cmsSent' = cmsSent \cup {<<loc.article.id,
                               ArticleToPost(loc.article, FullContent(loc.article)).content>>}
  /\ \E outcome \in {"ok", "http_error", "transport_error"} :
       IF outcome = "ok"
       THEN /\ pc' = "post_status"
            /\ UNCHANGED <<articles, loc>>
       ELSE PostCatch
  /\ UNCHANGED <<status, store, clock, nextId, counters, cfg, calls, attempted, persisted,
                 statusUpdates, analystFailed, marketerFailed, genSkipped, opHistory>>

\* updateFirestoreStatus(articleId, 'Posted'), then the list is updated
PostStatus ==
  /\ UNCHANGED <<server, splitter>>
  /\ pc = "post_status"
  /\ statusUpdates' = statusUpdates \cup {<<loc.article.id, "Posted">>}
  /\ \E outcome \in {"ok", "http_error", "transport_error"} :
       /\ store' = IF outcome = "ok"
                   THEN FirestoreStatus(store, loc.article.id, "Posted")
                   ELSE store
       /\ IF outcome = "transport_error"
          THEN PostCatch
          ELSE /\ articles' = MarkPosted(articles, loc.article.id)
               /\ pc' = "idle"
               /\ loc' = InitLoc
  /\ UNCHANGED <<status, clock, nextId, counters, cfg, calls, attempted, persisted,
                 cmsCalled, cmsSent, analystFailed, marketerFailed, genSkipped, opHistory>>

\* ------------------- the automatic run, the manual post and the page load
PostNext ==
  \/ RunPipeline
  \/ Analyst
  \/ Marketer
  \/ Writer
  \/ Controller
  \/ RewriteWriter
  \/ ReController
  \/ Designer
  \/ Save
  \/ CmsPost
  \/ StatusUpdate
  \/ HandlePostArticle
  \/ PostCms
  \/ PostStatus
  \/ LoadArticles

PostSpec == Init /\ [][PostNext]_vars

\* ------------------------------------------- POST /schedule, step by step
\* the variables of the dashboard and the ghosts of its runs
dashboard == <<status, articles, clock, nextId, runs, rewrites, pc, cfg, loc, calls,
               ghost, splitter>>

\* the handler of a request has ended: its locals are gone
SchedEnd(r, end) ==
  [NoRequest EXCEPT !.pc = end, !.response = r.response, !.calls = r.calls,
                    !.articleId = r.articleId]

\* a catch block that answers the request with an error
SchedCatch_respond500(r) == [SchedEnd(r, "failed") EXCEPT !.response = "500 error"]

\* the catch block of the scheduler pipeline: console.error only
SchedCatch(r) == SchedEnd(r, "failed")

\* The outcomes the stages of a request are drawn from: the first request
\* draws from the full sets, a later one from a usable response or a
\* transport error.
SchedFull(t) == t = 1
SchedAgentInputs(t) == IF SchedFull(t) THEN AgentOutcomes ELSE {"ok", "transport_error"}
SchedWriterInputs(t) ==
  IF SchedFull(t) THEN WriterOutcomes \cup {[kind |-> "empty", text |-> <<>>]}
  ELSE {[kind |-> "ok", text |-> <<"a", SPLIT, "b", SPLIT, "c">>],
        [kind |-> "transport_error", text |-> <<>>]}
SchedDesignerInputs(t) ==
  IF SchedFull(t) THEN DesignerOutcomes \cup {"transport_error"}
  ELSE {"ok", "transport_error"}
SchedControllerInputs(t) ==
  IF SchedFull(t) THEN ControllerOutcomes
  ELSE {o \in ControllerOutcomes :
          o.kind = "transport_error" \/ (o.kind = "ok" /\ o.json.status = "APPROVED")}

\* the request is received: the response is sent, then the first fetch is awaited
ScheduleTrigger(t) ==
  /\ sched[t].pc = "none"
  /\ \E isFifth \in BOOLEAN :
       sched' = [sched EXCEPT ![t].response = "200 started",
                              ![t].pc = IF isFifth THEN "monthly" ELSE "context"]
  /\ UNCHANGED <<dashboard, store, serverNow>>

\* the monthly report of the 5th; its failure is logged
SchedMonthly(t) ==
  /\ sched[t].pc = "monthly"
  /\ \E outcome \in {"ok", "error"} :
       sched' = [sched EXCEPT ![t].pc = "context", ![t].calls = @ \cup {"monthly"}]
  /\ UNCHANGED <<dashboard, store, serverNow>>

\* prompts, analytics and past articles are fetched; every failure is swallowed
SchedContext(t) ==
  /\ sched[t].pc = "context"
  /\ \E outcome \in {"ok", "error"} :
       sched' = [sched EXCEPT ![t].pc = "analyst"]
  /\ UNCHANGED <<dashboard, store, serverNow>>

\* 1. Analyst: a null analysis is thrown
SchedAnalyst(t) ==
  /\ sched[t].pc = "analyst"
  /\ \E outcome \in SchedAgentInputs(t) :
       LET analysis == cleanJson(ResponseText(outcome, [null |-> FALSE, topic |-> "topic"],
                                              SchedAnalysisEmpty))
           r == [sched[t] EXCEPT !.calls = @ \cup {"analyst"}]
       IN sched' = [sched EXCEPT ![t] =
                      IF outcome = "transport_error" \/ analysis.null
                      THEN SchedCatch(r)
                      ELSE [r EXCEPT !.pc = "marketer", !.analysis = analysis]]
  /\ UNCHANGED <<dashboard, store, serverNow>>

\* 2. Marketer: the strategy may be null
SchedMarketer(t) ==
  /\ sched[t].pc = "marketer"
  /\ \E outcome \in SchedAgentInputs(t) :
       LET strategy == cleanJson(ResponseText(outcome, [null |-> FALSE, title |-> "T"],
                                              SchedStrategyEmpty))
           r == [sched[t] EXCEPT !.calls = @ \cup {"marketer"}]
       IN sched' = [sched EXCEPT ![t] =
                      IF outcome = "transport_error"
                      THEN SchedCatch(r)
                      ELSE [r EXCEPT !.pc = "writer", !.strategy = strategy]]
  /\ UNCHANGED <<dashboard, store, serverNow>>

\* 3. Writer, then the content object: strategy.title of a null strategy throws
SchedWriter(t) ==
  /\ sched[t].pc = "writer"
  /\ \E outcome \in SchedWriterInputs(t) :
       LET r == [sched[t] EXCEPT !.calls = @ \cup {"writer"}]
       IN sched' = [sched EXCEPT ![t] =
                      IF outcome.kind = "transport_error" \/ r.strategy.null
                      THEN SchedCatch(r)
                      ELSE [r EXCEPT !.pc = "designer", !.contentText = outcome.text]]
  /\ UNCHANGED <<dashboard, store, serverNow>>

\* 4. Designer: the prompts only, no image is generated
SchedDesigner(t) ==
  /\ sched[t].pc = "designer"
  /\ \E outcome \in SchedDesignerInputs(t) :
       LET design == cleanJson(ResponseText(outcome,
                       [null |-> FALSE, thumbnail_prompt |-> "p1", section1_prompt |-> "p2",
                        section2_prompt |-> "p3", section3_prompt |-> "p4"],
                       SchedDesignEmpty))
           r == [sched[t] EXCEPT !.calls = @ \cup {"designer"}]
       IN sched' = [sched EXCEPT ![t] =
                      IF outcome = "transport_error"
                      THEN SchedCatch(r)
                      ELSE [r EXCEPT !.pc = "controller", !.design = design]]
  /\ UNCHANGED <<dashboard, store, serverNow>>

\* 5. Controller, then the article object with its id and date
SchedController(t) ==
  /\ sched[t].pc = "controller"
  /\ \E outcome \in SchedControllerInputs(t), now \in {serverNow, serverNow + 1} :
       LET review == cleanJson(ResponseText(outcome.kind,
                       [null |-> FALSE, status |-> outcome.json.status,
                        score |-> outcome.json.score, comments |-> outcome.json.comments],
                       SchedReviewEmpty))
           r == [sched[t] EXCEPT !.calls = @ \cup {"controller"}]
       IN /\ now <= MaxServerTime
          /\ IF outcome.kind = "transport_error"
             THEN /\ sched' = [sched EXCEPT ![t] = SchedCatch(r)]
                  /\ UNCHANGED serverNow
             ELSE /\ sched' = [sched EXCEPT ![t] =
                                 [r EXCEPT !.pc = "save", !.review = review,
                                           !.articleId = ScheduledId(now), !.date = now]]
                  /\ serverNow' = now
  /\ UNCHANGED <<dashboard, store>>

\* 6. Save: the response of /api/firestore/save is not looked at
SchedSave(t) ==
  /\ sched[t].pc = "save"
  /\ \E outcome \in {"ok", "http_error", "transport_error"} :
       LET r == [sched[t] EXCEPT !.calls = @ \cup {"save"}]
       IN /\ sched' = [sched EXCEPT ![t] =
                         IF outcome = "transport_error"
                         THEN SchedCatch(r)
                         ELSE SchedEnd(r, "completed")]
          /\ store' = IF outcome = "ok"
                      THEN FirestoreSave(store, r.articleId, SchedSaveFields(r))
                      ELSE store
  /\ UNCHANGED <<dashboard, serverNow>>

SchedNext ==
  \E t \in Triggers :
     \/ ScheduleTrigger(t)
     \/ SchedMonthly(t)
     \/ SchedContext(t)
     \/ SchedAnalyst(t)
     \/ SchedMarketer(t)
     \/ SchedWriter(t)
     \/ SchedDesigner(t)
     \/ SchedController(t)
     \/ SchedSave(t)

SchedSpec == Init /\ [][SchedNext]_vars

\* ------------------------------------------------- the split, on its own
\* the content object is built from a writer output, as runPipeline and
\* handleRewrite build it
SplitContent ==
  /\ ~parts.built
  /\ \E title \in {"T", STRATEGY_ERROR_TITLE} :
       parts' = [built |-> TRUE, content |-> MakeContent(title, rawText)]
  /\ UNCHANGED <<status, articles, store, clock, nextId, counters, pc, cfg, loc, calls,
                 ghost, server, rawText>>

SplitInit ==
  /\ InitApp
  /\ rawText \in SplitTexts
  /\ parts = NoParts

SplitNext == SplitContent

SplitSpec == SplitInit /\ [][SplitNext]_vars

\* ------------------------------------------------------------ the claims
SeqToSet(q) == {q[k] : k \in 1..Len(q)}
Last(q) == q[Len(q)]

\* the handler is runPipeline
InAutoRun == pc \in {"analyst", "marketer", "writer", "controller", "rewriteWriter",
                     "reController", "designer", "save", "cmsPost", "statusUpdate"}

\* runPipeline has built newArticle and is at the save call or past it
AutoBuilt == pc \in {"save", "cmsPost", "statusUpdate"}

\* the last handler to end was an automatic run that completed
AutoRunCompleted == pc = "idle" /\ status = "COMPLETED" /\ attempted # {}

\* the articles the current automatic run has passed on: the ones pushed to
\* generatedArticles, and after the run the ones it put into the list
FinishedByRun ==
  (IF InAutoRun THEN SeqToSet(loc.generatedArticles) ELSE {})
    \cup (IF AutoRunCompleted
          THEN {a \in SeqToSet(articles) : a.id \in persisted} ELSE {})

\* every article object of the current automatic run
RunArticles == (IF AutoBuilt THEN {loc.newArticle} ELSE {}) \cup FinishedByRun

NoImages(urls) == \A k \in 1..Len(urls) : urls[k] = NoImage

C3_ApprovedHasApprovedLast ==
  \A a \in RunArticles :
     a.status \in {"Approved", "Posted"} =>
       /\ Len(a.review_history) > 0
       /\ IsApprovedStatus(Last(a.review_history).status)
       /\ Last(a.review_history) = a.review

\* C3 witness: a Posted article of a completed run, approved by the second review
C3_Witness ==
  /\ AutoRunCompleted
  /\ \E a \in FinishedByRun :
       a.status = "Posted" /\ Len(a.review_history) = 2 /\ a.review.status = "APPROVED"

\* C4: in an automatic run the image stage runs for an article iff the final
\* review is approved and skipImages is off; when it does not run, image_urls
\* is empty and the four design prompts are empty.
C4_ImageStage ==
  /\ calls.designer <= 1
  /\ AutoBuilt =>
       /\ calls.designer = 1 <=>
            (IsApprovedStatus(loc.finalReview.status) /\ ~cfg.skipImages)
       /\ calls.designer = 0 =>
            /\ Len(loc.newArticle.image_urls) = 0
            /\ loc.newArticle.design = EmptyDesign
  /\ pc = "designer" => IsApprovedStatus(loc.finalReview.status) /\ ~cfg.skipImages

\* C4 witness: an approved article built without the image stage, skipImages on
C4_Witness ==
  /\ pc = "save"
  /\ IsApprovedStatus(loc.finalReview.status)
  /\ cfg.skipImages
  /\ calls.designer = 0
  /\ Len(loc.newArticle.image_urls) = 0

\* every article object the handlers hold
MemoryArticles ==
  SeqToSet(articles) \cup SeqToSet(loc.generatedArticles)
    \cup (IF pc \in {"save", "cmsPost", "statusUpdate", "rw_save"}
          THEN {loc.newArticle} ELSE {})

\* C5: an article generated with skipImages on has no image in image_urls,
\* after the run and after every manual rewrite, in memory and in the store,
\* also when the rewritten article was loaded back from the store.
C5_SkippedStaysWithoutImages ==
  /\ \A a \in MemoryArticles : a.id \in genSkipped => NoImages(a.image_urls)
  /\ \A id \in DOMAIN store : id \in genSkipped => NoImages(store[id].image_urls)

\* C6: at the save call of an automatic run the article's status is Approved if
\* its latest review is approved and Reviewing otherwise; no document the run
\* saved has status Drafting, Rejected or Error.
C6_StatusBeforePersist ==
  /\ pc = "save" =>
       /\ Last(loc.newArticle.review_history) = loc.finalReview
       /\ loc.newArticle.status =
            IF IsApprovedStatus(Last(loc.newArticle.review_history).status)
            THEN "Approved" ELSE "Reviewing"
  /\ (InAutoRun \/ AutoRunCompleted) =>
       \A id \in persisted : store[id].status \in {"Approved", "Reviewing", "Posted"}

\* C6 witness: a completed run stored an article as Reviewing after two rejections
C6_Witness ==
  /\ AutoRunCompleted
  /\ \E a \in FinishedByRun :
       /\ a.status = "Reviewing" /\ store[a.id].status = "Reviewing"
       /\ Len(a.review_history) = 2

\* C7: in an automatic run /api/cms/post is called for an article iff its
\* final status is Approved and autoPost is on, and only after its save call
\* succeeded; when the post succeeds (the status update is then issued) the
\* article's status is Posted.
C7_PublishAfterApproval ==
  /\ pc = "cmsPost" =>
       /\ loc.newArticle.status = "Approved" /\ cfg.autoPost
       /\ loc.newArticle.id \in persisted
       /\ store[loc.newArticle.id] = SaveFields(loc.newArticle)
  /\ \A a \in FinishedByRun :
       /\ a.id \in cmsCalled <=> (IsApprovedStatus(a.review.status) /\ cfg.autoPost)
       /\ a.status = "Posted" => <<a.id, "Posted">> \in statusUpdates
       /\ <<a.id, "Posted">> \in statusUpdates => a.status = "Posted"

\* the step in which the post to the CMS fails
PublishFails == pc = "cmsPost" /\ pc' # "statusUpdate"

\* C8: when the post to the CMS fails for an approved article of an automatic
\* run, the article stays Approved in memory and in the store, the run does not
\* go to ERROR, the article is pushed to the generated articles, and the run
\* goes on with the next article (or completes).
C8_PublishFailureKeepsApproved ==
  [][PublishFails =>
       /\ status' # "ERROR"
       /\ store' = store
       /\ store[loc.newArticle.id].status = "Approved"
       /\ loc.newArticle.status = "Approved"
       /\ IF loc.i < cfg.articleCount
          THEN /\ pc' = "analyst"
               /\ loc'.i = loc.i + 1
               /\ loc'.generatedArticles = Append(loc.generatedArticles, loc.newArticle)
          ELSE /\ pc' = "idle"
               /\ status' = "COMPLETED"
               /\ articles' = Append(loc.generatedArticles, loc.newArticle) \o articles]_vars

\* C8 witness: the second article of a batch is begun after the post of the
\* first one failed
C8_Witness ==
  /\ pc = "analyst" /\ loc.i = 2
  /\ Len(loc.generatedArticles) = 1
  /\ loc.generatedArticles[1].status = "Approved"
  /\ loc.generatedArticles[1].id \in cmsCalled
  /\ <<loc.generatedArticles[1].id, "Posted">> \notin statusUpdates
  /\ store[loc.generatedArticles[1].id].status = "Approved"

\* the status of the article object with this id, "none" when there is none
ArticleStatus(id) ==
  IF \E a \in MemoryArticles : a.id = id
  THEN (CHOOSE a \in MemoryArticles : a.id = id).status
  ELSE "none"

\* no save, no post and no later stage for an id whose analyst call failed
NothingAfterAnalystFailure ==
  \A id \in analystFailed :
     /\ id \notin DOMAIN store
     /\ id \notin persisted
     /\ id \notin cmsCalled
     /\ \A upd \in statusUpdates : upd[1] # id
     /\ ~(InAutoRun /\ pc # "analyst" /\ loc.newArticleId = id)

C10_EveryIndexAttempted ==
  (pc = "idle" /\ status \in {"COMPLETED", "ERROR"} /\ attempted # {}) =>
    attempted = 1..cfg.articleCount

\* the stages of an automatic run between the marketer call and the save call
BeforeSave == pc \in {"writer", "controller", "rewriteWriter", "reController", "designer"}

\* C11: when the marketer call of an article fails, the strategy is the
\* placeholder with the sentinel title and an empty structure, the run is not
\* aborted, and the writer, the controller and the save call still happen for
\* that article, which is saved under the sentinel title.
C11_MarketerFailureDegrades ==
  /\ []((InAutoRun /\ loc.newArticleId \in marketerFailed) =>
          /\ loc.strategy.title = STRATEGY_ERROR_TITLE
          /\ loc.strategy.structure = <<>>
          /\ status # "ERROR"
          /\ AutoBuilt =>
               /\ calls.writer >= 1 /\ calls.controller >= 1
               /\ loc.newArticle.title = STRATEGY_ERROR_TITLE
               /\ loc.newArticle.marketing_strategy = loc.strategy)
  /\ []((InAutoRun \/ AutoRunCompleted) =>
          \A id \in marketerFailed \cap persisted :
             store[id].content.title = STRATEGY_ERROR_TITLE)
  /\ [][(pc = "marketer" /\ loc.newArticleId \in marketerFailed') =>
          pc' = "writer" /\ status' = "WRITER"]_vars
  /\ [][(BeforeSave /\ loc.newArticleId \in marketerFailed) =>
          /\ status' # "ERROR"
          /\ pc' \in {"controller", "rewriteWriter", "reController", "designer", "save"}
          /\ loc'.newArticleId = loc.newArticleId]_vars

\* C11 witness: a completed run saved an article whose marketer call failed
C11_Witness ==
  /\ AutoRunCompleted
  /\ \E a \in FinishedByRun :
       /\ a.id \in marketerFailed
       /\ a.title = STRATEGY_ERROR_TITLE
       /\ Len(a.review_history) >= 1
       /\ store[a.id].marketing_strategy.structure = <<>>

\* the pipeline of a /schedule request is between its response and its end
SchedRunning(t) == sched[t].pc \notin {"none", "completed", "failed"}

\* C12: at most one run is in progress at any time, counting the handler of
\* the dashboard (automatic run or manual rewrite) and the pipelines of the
\* /schedule requests.
C12_AtMostOneRun ==
  Cardinality({t \in Triggers : SchedRunning(t)}) + (IF pc = "idle" THEN 0 ELSE 1) <= 1

\* handleRewrite has built updatedArticle and is at its save call
RewriteBuilt == pc = "rw_save"

\* C13: a manual rewrite of an article without review_history stores a history
\* of exactly two entries, the article's previous review and then the new
\* review; a manual rewrite of an article with a history stores that history
\* with the new review appended, one entry longer.
C13_RewriteBackfillsHistory ==
  RewriteBuilt =>
    /\ Len(loc.article.review_history) = 0 =>
         /\ Len(loc.newArticle.review_history) = 2
         /\ loc.newArticle.review_history[1] = loc.article.review
         /\ loc.newArticle.review_history[2] = loc.review
    /\ Len(loc.article.review_history) > 0 =>
         /\ Len(loc.newArticle.review_history) = Len(loc.article.review_history) + 1
         /\ loc.newArticle.review_history = Append(loc.article.review_history, loc.review)

\* C13 witness: the rewrite of an article loaded from the store, which has no
\* history, is about to be saved with the previous review backfilled
C13_Witness ==
  /\ RewriteBuilt
  /\ Len(loc.article.review_history) = 0
  /\ loc.article.id \in DOMAIN store
  /\ loc.newArticle.review_history = <<loc.article.review, loc.review>>
  /\ loc.review # loc.article.review

\* the last handler to end was a manual rewrite
RewriteEnded ==
  pc = "idle" /\ status \in {"COMPLETED", "ERROR"} /\ attempted = {} /\ rewrites > 0

\* C14: a manual rewrite calls the writer exactly once and the controller
\* exactly once whatever the new review says, and makes exactly one save call
\* for the article.
C14_RewriteOnce ==
  /\ [](RewriteBuilt =>
          calls.writer = 1 /\ calls.controller = 1 /\ calls.save = 0)
  /\ [](RewriteEnded =>
          calls.writer = 1 /\ calls.controller = 1 /\ calls.save = 1)
  /\ [][pc = "rw_controller" => pc' \in {"rw_designer", "rw_save"}]_vars
  /\ [][RewriteBuilt => RewriteEnded']_vars

\* C14 witness: a manual rewrite ended after a rejecting review, with one writer
\* call, one controller call and one save call
C14_Witness ==
  /\ RewriteEnded
  /\ status = "COMPLETED"
  /\ calls.writer = 1 /\ calls.controller = 1 /\ calls.save = 1
  /\ \E k \in 1..Len(articles) :
       /\ articles[k].rewrite_attempted = "true"
       /\ articles[k].status = "Reviewing"
       /\ ~IsApprovedStatus(articles[k].review.status)

\* p is a prefix of q
IsPrefix(p, q) == Len(p) <= Len(q) /\ SubSeq(q, 1, Len(p)) = p

\* C15: review_history is append-only across an automatic run and the manual
\* rewrites of the same article: the history a manual rewrite stores starts
\* with the history the previous operation on that article left, and the last
\* entry of the history a run or a rewrite stores is the article's review.
C15_HistoryAppendOnly ==
  /\ AutoBuilt => Last(loc.newArticle.review_history) = loc.newArticle.review
  /\ RewriteBuilt =>
       /\ Last(loc.newArticle.review_history) = loc.newArticle.review
       /\ IsPrefix(opHistory[loc.newArticle.id], loc.newArticle.review_history)

\* the number of [SPLIT] markers in a text
Markers(text) == Cardinality({k \in 1..Len(text) : text[k] = SPLIT})

\* C16: when the writer output has exactly two [SPLIT] markers, the three body
\* parts are its three segments in order (no part holds a marker, and the
\* parts joined by the marker give the output back); when it has no marker,
\* body_p1 is the whole output and body_p2 and body_p3 are empty.
C16_SplitParts ==
  parts.built =>
    LET c == parts.content IN
    /\ Markers(rawText) = 2 =>
         /\ c.body_p1 \o <<SPLIT>> \o c.body_p2 \o <<SPLIT>> \o c.body_p3 = rawText
         /\ Markers(c.body_p1) = 0 /\ Markers(c.body_p2) = 0 /\ Markers(c.body_p3) = 0
    /\ Markers(rawText) = 0 =>
         c.body_p1 = rawText /\ c.body_p2 = <<>> /\ c.body_p3 = <<>>

\* C16 witness: an output with two markers and an empty first segment has been
\* split into its three segments
C16_Witness ==
  /\ parts.built
  /\ Markers(rawText) = 2
  /\ rawText[1] = SPLIT
  /\ parts.content.body_p1 = <<>>
  /\ parts.content.body_p2 # <<>>
  /\ parts.content.body_p3 # <<>>

\* the reference is an image generated for this slot, uploaded or not
IsImageOfSlot(ref, slot) ==
  /\ ref # NoImage
  /\ ref[1] # "placehold.co"
  /\ ref[Len(ref)] = slot

\* C17: after the image stage of an automatic run or a manual rewrite, with
\* any image model, the entry of image_urls of a slot whose generation failed
\* is empty, the entry of a slot whose generation succeeded is the image of
\* that slot at its own index, and the run has not failed.
C17_FailedSlotEmpty ==
  ((AutoBuilt \/ RewriteBuilt) /\ calls.designer = 1) =>
    /\ status # "ERROR"
    /\ Len(loc.newArticle.image_urls) = 4
    /\ \A s \in Slots :
         IF s \in calls.generated
         THEN IsImageOfSlot(loc.newArticle.image_urls[s], s)
         ELSE loc.newArticle.image_urls[s] = NoImage

\* the step in which a save call of the dashboard succeeds
SaveSucceeds == pc \in {"save", "rw_save"} /\ status' # "ERROR"

\* C18: a successful save call leaves exactly the documents there were plus the
\* one of the saved id, whose fields are those of this save, also when the id
\* was already stored (the conflict path); the other documents are untouched,
\* and the same save made once more would not change the store.
C18_SaveIsUpsert ==
  [][SaveSucceeds =>
       LET id == loc.newArticle.id
           doc == SaveFields(loc.newArticle)
       IN /\ DOMAIN store' = DOMAIN store \cup {id}
          /\ store'[id] = doc
          /\ \A x \in DOMAIN store \ {id} : store'[x] = store[x]
          /\ FirestoreSave(store', id, doc) = store']_vars

\* C18 witness: a manual rewrite has saved an id that was already stored, and
\* the stored document is the rewritten article
C18_Witness ==
  /\ RewriteEnded /\ status = "COMPLETED"
  /\ \E k \in 1..Len(articles) :
       /\ persisted = {articles[k].id}
       /\ store[articles[k].id] = SaveFields(articles[k])
       /\ store[articles[k].id].date > 1
       /\ Len(opHistory[articles[k].id]) >= 2

\* C19: the response to a /schedule request is sent in the step that receives
\* it, before any stage of its pipeline has been called; it is 200 'started'
\* and never changes afterwards, whether the pipeline completes or fails.
C19_AckBeforePipeline ==
  /\ [](\A t \in Triggers :
          IF sched[t].pc = "none"
          THEN sched[t].response = "none" /\ sched[t].calls = {}
          ELSE sched[t].response = "200 started")
  /\ [][\A t \in Triggers :
          sched'[t].response # sched[t].response =>
            /\ sched[t].pc = "none"
            /\ sched'[t].response = "200 started"
            /\ sched'[t].calls = {}
            /\ sched'[t].pc \in {"monthly", "context"}]_vars

\* C19 witness: one request whose pipeline failed after its analyst call and one
\* whose pipeline completed and saved, both answered 200 'started'
C19_Witness ==
  \E t, u \in Triggers :
     /\ sched[t].pc = "failed" /\ "analyst" \in sched[t].calls
     /\ sched[t].response = "200 started"
     /\ sched[u].pc = "completed" /\ sched[u].articleId \in DOMAIN store
     /\ sched[u].response = "200 started"

\* C20: the writer request of a rewrite carries the feedback and the current
\* content: in an automatic run the comments of the rejecting review and the
\* first writer output, in a manual rewrite the comments of the article's
\* review (or the default feedback) and the joined body parts.
C20_RewriteRequestHasContext ==
  /\ pc = "reController" =>
       calls.writerRequest.context =
         [feedback |-> loc.review.comments, currentContent |-> loc.rawContent]
  /\ pc = "rw_controller" =>
       calls.writerRequest.context =
         [feedback |-> RewriteFeedback(loc.article),
          currentContent |-> CurrentContentFull(loc.article)]

\* C21: after an automatic run whose rewrite branch executed, the content of
\* the article is the second writer output: the body parts of the article
\* object (and of the stored document) are the split of that output, the
\* article's review is the review of that output, and the content sent to
\* /api/cms/post by the auto post is that same output.
C21_RewriteReplacesContent ==
  /\ (AutoBuilt /\ loc.rewriteAttempted) =>
       /\ loc.newArticle.content = MakeContent(loc.strategy.title, loc.finalContentStr)
       /\ loc.newArticle.review = loc.finalReview
       /\ Last(loc.newArticle.review_history) = loc.finalReview
  /\ (pc \in {"cmsPost", "statusUpdate"} /\ loc.rewriteAttempted) =>
       store[loc.newArticle.id].content = MakeContent(loc.strategy.title, loc.finalContentStr)
  /\ (pc = "statusUpdate" /\ loc.rewriteAttempted) =>
       <<loc.newArticle.id, loc.finalContentStr>> \in cmsSent
  /\ \A a \in FinishedByRun : \A sent \in cmsSent :
       (sent[1] = a.id /\ a.rewrite_attempted = "true") =>
          MakeContent(a.content.title, sent[2]) = a.content

\* the step in which a manual post marks its article Posted in the list
ManualPostMarksPosted == pc = "post_status" /\ articles' # articles

\* C22: a manual post keeps "status Posted implies the last review is
\* approved": handlePostArticle sets the status of an article to Posted only
\* if the article's latest review is an approved verdict.
C22_ManualPostOnlyApproved ==
  [][ManualPostMarksPosted =>
       /\ IsApprovedStatus(loc.article.review.status)
       /\ \A a \in SeqToSet(articles') :
            a.status = "Posted" => IsApprovedStatus(a.review.status)]_vars

\* the fields a manual rewrite leaves alone agree in two article objects
SameFrame(a, b) ==
  /\ b.id = a.id
  /\ b.topic = a.topic
  /\ b.title = a.title
  /\ b.content.title = a.content.title
  /\ b.analysis_report = a.analysis_report
  /\ b.marketing_strategy = a.marketing_strategy
  /\ b.isImageGenSkipped = a.isImageGenSkipped

\* C23: a manual rewrite leaves id, topic, title, analysis_report,
\* marketing_strategy and isImageGenSkipped of the article unchanged, in the
\* updated article object, in the list and (for the stored fields) in the
\* store; the other entries of the list are not touched.
C23_RewriteFrame ==
  /\ [](RewriteBuilt => SameFrame(loc.article, loc.newArticle))
  /\ [][(RewriteBuilt /\ status' = "COMPLETED") =>
          /\ Len(articles') = Len(articles)
          /\ \A k \in 1..Len(articles) :
               /\ SameFrame(articles[k], articles'[k])
               /\ articles[k].id # loc.article.id => articles'[k] = articles[k]
               /\ articles[k].id = loc.article.id => articles'[k] = loc.newArticle
          /\ store'[loc.article.id].analysis_report = store[loc.article.id].analysis_report
          /\ store'[loc.article.id].marketing_strategy =
               store[loc.article.id].marketing_strategy
          /\ store'[loc.article.id].content.title = store[loc.article.id].content.title]_vars

\* C23 witness: a manual rewrite of an article still held since its run has
\* completed: body, review, history, status and date are new, topic and the
\* skip flag are the ones of the run
C23_Witness ==
  /\ RewriteEnded /\ status = "COMPLETED"
  /\ \E k \in 1..Len(articles) :
       /\ articles[k].id \in persisted
       /\ articles[k].rewrite_attempted = "true"
       /\ Len(articles[k].review_history) = 3
       /\ articles[k].status = "Approved"
       /\ articles[k].review_history[2].status = "REVIEW_REQUIRED"
       /\ articles[k].topic = "topic"
       /\ articles[k].isImageGenSkipped = "true"
       /\ articles[k].date > 1
       /\ store[articles[k].id].content = articles[k].content

\* the last handler to end was an automatic run
AutoRunEnded == pc = "idle" /\ status \in {"COMPLETED", "ERROR"} /\ attempted # {}

\* C24: when an automatic run has ended, in COMPLETED or in ERROR, every
\* article whose save call succeeded during the run is in the articles list.
C24_PersistedAreListed ==
  AutoRunEnded => \A id \in persisted : \E k \in 1..Len(articles) : articles[k].id = id

\* the article fetchArticles returns for this id
Loaded(id) ==
  LET list == fetchArticles(store)
  IN list[CHOOSE k \in 1..Len(list) : list[k].id = id]

\* the fields the stored record has to give back for a later manual rewrite
SameRecord(a, b) ==
  /\ b.status = a.status
  /\ b.content = a.content
  /\ b.image_urls = a.image_urls
  /\ b.review.status = a.review.status
  /\ b.review.score = a.review.score
  /\ b.review.comments = a.review.comments
  /\ b.review_history = a.review_history
  /\ b.rewrite_attempted = a.rewrite_attempted
  /\ b.isImageGenSkipped = a.isImageGenSkipped

\* C25: an article that has been saved (the stored document is the one
\* saveToFirestore writes for it) is loaded back by fetchArticles with the
\* same status, content, image_urls, review verdict, score and comments,
\* review_history, rewrite_attempted and isImageGenSkipped.
C25_SaveLoadRoundTrip ==
  \A a \in MemoryArticles :
     (a.id \in DOMAIN store /\ store[a.id] = SaveFields(a)) => SameRecord(a, Loaded(a.id))

\* the rewrite branch of the current article was taken
RewriteBranchTaken == pc \in {"rewriteWriter", "reController"} \/ (AutoBuilt /\ loc.rewriteAttempted)

\* C26: the rewrite decision and the final status of an automatic run use the
\* same approval predicate: for every verdict of the first review, whatever
\* the case of its status string, the rewrite branch is taken exactly when
\* that review does not count as approved for the final status.
C26_SameApprovalPredicate ==
  /\ RewriteBranchTaken => ~IsApprovedStatus(loc.review.status)
  /\ (AutoBuilt /\ ~loc.rewriteAttempted) => IsApprovedStatus(loc.review.status)

\* the review controllerAgent yields when its call fails
ControllerFailed(review) ==
  review = [status |-> "REVIEW_REQUIRED", score |-> 0, comments |-> "Error"]

\* C27: a failure of the controller stage (transport error, empty response,
\* unparseable JSON) never aborts a run: controllerAgent yields a review that
\* is not approved and has score 0; in an automatic run a failed first review
\* starts the one rewrite, and a failed second review gives the final status
\* Reviewing, no image stage and no post, and the article is saved as such.
C27_ControllerFailureIsSoft ==
  /\ [](\A o \in ControllerOutcomes :
          o.kind # "ok" => /\ ControllerFailed(controllerAgent(o))
                           /\ ~IsApprovedStatus(controllerAgent(o).status))
  /\ [][(pc \in {"controller", "reController", "rw_controller"}) =>
          (status' # "ERROR" /\ pc' # "idle")]_vars
  /\ []((pc \in {"rewriteWriter", "reController", "designer", "save", "cmsPost",
                 "statusUpdate"} /\ ControllerFailed(loc.review)) =>
          loc.rewriteAttempted /\ calls.writer + calls.controller >= 2)
  /\ []((AutoBuilt /\ ControllerFailed(loc.finalReview)) =>
          /\ pc = "save"
          /\ loc.newArticle.status = "Reviewing"
          /\ loc.newArticle.review = loc.finalReview
          /\ calls.designer = 0
          /\ loc.newArticle.image_urls = <<>>)
  /\ [][(pc = "save" /\ ControllerFailed(loc.finalReview) /\ status' # "ERROR") =>
          /\ loc.newArticle.id \in persisted'
          /\ store'[loc.newArticle.id] = SaveFields(loc.newArticle)
          /\ store'[loc.newArticle.id].status = "Reviewing"]_vars

\* C27 witness: a run has completed with an article both of whose reviews
\* failed: it is Reviewing, stored, and has no image
C27_Witness ==
  /\ AutoRunCompleted
  /\ \E k \in 1..Len(articles) :
       /\ Len(articles[k].review_history) = 2
       /\ ControllerFailed(articles[k].review_history[1])
       /\ ControllerFailed(articles[k].review_history[2])
       /\ articles[k].status = "Reviewing"
       /\ articles[k].rewrite_attempted = "true"
       /\ articles[k].image_urls = <<>>
       /\ articles[k].id \in persisted
       /\ store[articles[k].id].status = "Reviewing"

\* C28: whenever an automatic run or a manual post has finished, the status
\* of every article of the list is the status of its stored document; an
\* article that is Posted in memory is Posted in the store, whatever the
\* outcome of the status update call was.
C28_MemoryStatusIsStored ==
  pc = "idle" =>
    \A k \in 1..Len(articles) :
       /\ articles[k].id \in DOMAIN store
       /\ store[articles[k].id].status = articles[k].status

\* a run is in progress: its handler is suspended at an await
RunInProgress == pc # "idle"

\* C29: every accepted run (runPipeline or handleRewrite) eventually sets the
\* run status to COMPLETED or ERROR, provided every collaborator call returns
\* or throws; when no handler is in progress the status is never a Running
\* stage, so the run guard does not lock out later runs.
C29_RunTerminates ==
  /\ [](~RunInProgress => RunGuard)
  /\ [](RunInProgress => ~RunGuard)
  /\ RunInProgress ~> (~RunInProgress /\ status \in {"COMPLETED", "ERROR"})

\* C29 witness: a manual rewrite, accepted after a completed run, has ended in
\* ERROR with its save call made, and the run guard is open again
C29_Witness ==
  /\ RewriteEnded /\ status = "ERROR" /\ RunGuard
  /\ runs = 1 /\ rewrites = 1
  /\ calls.save = 1

\* the review of a request counts as approved
SchedApproved(r) == ~r.review.null /\ IsApprovedStatus(r.review.status)

\* C30: the pipeline of POST /schedule has the orchestration outcome of the
\* dashboard's automatic run for the same agent outcomes: the document it
\* saves has status Approved iff the controller approved and Reviewing
\* otherwise, the designer is invoked only for an approved article, and a
\* failure of the marketer does not abort the request.
C30_SchedulerMatchesDashboard ==
  \A t \in Triggers :
     /\ sched[t].pc = "save" =>
          /\ SchedSaveFields(sched[t]).status =
               IF SchedApproved(sched[t]) THEN "Approved" ELSE "Reviewing"
          /\ ~SchedApproved(sched[t]) => "designer" \notin sched[t].calls
     /\ (sched[t].pc = "completed" /\ sched[t].articleId \in DOMAIN store) =>
          store[sched[t].articleId].status \in {"Approved", "Reviewing"}
     /\ (sched[t].pc = "failed" /\ "marketer" \in sched[t].calls) =>
          "writer" \in sched[t].calls

TypeOK ==
  /\ status \in {"IDLE", "ANALYST", "MARKETER", "WRITER", "DESIGNER", "CONTROLLER",
                  "PUBLISHER", "COMPLETED", "ERROR"}
  /\ nextId \in 1..(MaxRuns * MaxArticleCount + 1)
  /\ DOMAIN store \subseteq Ids \cup {ScheduledId(now) : now \in 1..MaxServerTime}
  /\ serverNow \in 1..MaxServerTime
  /\ \A t \in Triggers :
       sched[t].pc \in {"none", "monthly", "context", "analyst", "marketer", "writer",
                        "designer", "controller", "save", "completed", "failed"}

====
